---------------------------- MODULE Spec2Model ----------------------------
(***************************************************************************)
(* Model of the LPWAN tracker's event dispatcher (app.cpp) and of the      *)
(* location acquisition task (gnss.cpp).                                   *)
(*                                                                         *)
(* The dispatcher loop calls app_event_handler, ble_data_handler and       *)
(* lora_data_handler one after the other (one pass).  Each handler is one  *)
(* action that runs the whole handler at one reading of millis().  The     *)
(* acquisition task, the two software timers, the interrupt sources and    *)
(* the clock are separate actions that interleave with the handlers.       *)
(***************************************************************************)
EXTENDS Integers, Sequences, FiniteSets, TLC

\* ------------------------------------------------------------------------
\* Program constants
\* ------------------------------------------------------------------------
LowBattLevel == 290
HighBattLevel == 410
OneHourMs == 3600000
DefaultMinDelay == 30000
MaxSendFail == 10
RestrictedRegion == 8
BattPayloadLen == 4
PollCeiling == 90000

\* ------------------------------------------------------------------------
\* Bounds of the model
\* ------------------------------------------------------------------------
\* the clock advances in steps of TickMs, at most MaxTicks times from 0
TickMs == 1000
MaxTicks == 4
\* a jump of the clock to the next timer expiry is taken up to this time
HorizonMs == 30000
\* tx-completed events are taken until the device restarted this often
MaxRestarts == 1
\* a jump of the clock from deadline to deadline is taken up to this time
FarHorizonMs == 400000
\* permit releases not yet answered by a fix-completed event are counted up
\* to this number
PermitCap == 3

MaxTime == MaxTicks * TickMs

\* ------------------------------------------------------------------------
\* Value sets
\* ------------------------------------------------------------------------
Flags == {"STATUS", "ACC_TRIGGER", "GNSS_FIN", "LORA_JOIN_FIN",
          "LORA_TX_FIN", "LORA_DATA", "BLE_DATA"}

LmhResults == {"LMH_SUCCESS", "LMH_BUSY", "LMH_ERROR"}

\* battery readings, already divided by 10 (read_batt() / 10)
BattLevels == {280, 289, 290, 300, 410, 411, 450}

\* configured send intervals in milliseconds
RepeatTimes == {0, 4000, 60000}

\* send intervals around the limits of the polling time limit
PollRepeats == {0, 60000, 90000, 120000, 180000, 200000}

\* (lorawan_enable, lora_region, data_rate) of the stored settings
RadioSettings ==
    { <<TRUE, 8, 0>>, <<TRUE, 8, 3>>, <<TRUE, 5, 0>>, <<FALSE, 5, 0>> }

GnssOptions == {"NO_GNSS_INIT", "RAK12500_GNSS"}

\* outcome of one polling loop: a fix, a fix at latitude 0 / longitude 0,
\* or no fix before the time limit
PollOutcomes == {"fix", "zero", "nofix"}

VARIABLES
    g_lorawan_settings,   \* stored settings (constant after start)
    gnss_option,          \* positioning module in use or NO_GNSS_INIT
    now,                  \* millis()
    g_task_event_type,    \* the event flag word, as the set of flags set
    last_pos_send,
    delayed_active,
    delayed_sending,      \* one-shot timer: [active, period, expiry]
    g_task_wakeup_timer,  \* periodic timer: [active, period, expiry]
    send_fail,
    low_batt_protection,
    g_lpwan_has_joined,
    g_join_result,
    g_rx_fin_result,
    g_gnss_sem,           \* "NULL" (not created), "EMPTY" or "FULL"
    gnss_pc,              \* "none" (no task), "wait" or "poll"
    time_out,             \* millis() at the start of the polling loop
    last_read_ok,
    loop_pc,              \* next handler of the pass: "app", "ble", "lora"
    \* -- history variables (not program state) --
    handled,              \* flags whose block ran in the last handler
    radio_log,            \* send calls made by the last app_event_handler
    at_log,               \* +EVT tags printed by the last app_event_handler
    last_frame,           \* time the radio last took a position frame
    batt_hist,            \* last timer events: [before, level, after]
    consec_fail,          \* failed tx-completed events since the last ack
    restart_at,           \* consec_fail at each restart
    permit_given,         \* last STATUS block released the permit
    permit_owed,          \* permit releases minus fix-completed events
                          \* handled (counted up to a cap)
    \* -- the payload encoder --
    g_gps_prec_6,         \* TRUE: extended precision, FALSE: standard
    has_env_sensor,
    g_tracker_data_s,     \* lat_1..3, long_1..3, alt_1..3
    g_tracker_data_l,     \* lat_1..4, long_1..4, alt_1..3
    last_reading,         \* history: what the last polling loop ended with
    g_task_sem,           \* the dispatcher's wake-up permit: "EMPTY", "FULL"
    WB_IO2,               \* power pin of the positioning module: "HIGH", "LOW"
    fix_type,             \* what the module reported in the last round of the
                          \* polling loop: -1 (getGnssFixOk() false) or the
                          \* fix type 0..5
    rmw                   \* per task, the update of the flag word it is in
                          \* the middle of: the value it loaded and what it
                          \* is about to do with it

vars == << g_lorawan_settings, gnss_option, now, g_task_event_type,
           last_pos_send, delayed_active, delayed_sending,
           g_task_wakeup_timer, send_fail, low_batt_protection,
           g_lpwan_has_joined, g_join_result, g_rx_fin_result, g_gnss_sem,
           gnss_pc, time_out, last_read_ok, loop_pc, handled,
           radio_log, at_log, last_frame, batt_hist, consec_fail, restart_at,
           permit_given, permit_owed, g_gps_prec_6, has_env_sensor,
           g_tracker_data_s, g_tracker_data_l, last_reading, g_task_sem,
           WB_IO2, fix_type, rmw >>

\* ------------------------------------------------------------------------
\* Pure functions of the program
\* ------------------------------------------------------------------------

\* init_app: minimum delay between two position messages
MinDelayOf(repeat) ==
    IF repeat # 0 THEN repeat \div 2 ELSE DefaultMinDelay

min_delay == MinDelayOf(g_lorawan_settings.send_repeat_time)

\* poll_gnss: time limit of the polling loop
CheckLimit(repeat) ==
    IF repeat = 0 THEN PollCeiling
    ELSE IF repeat <= 90000 THEN repeat \div 2
    ELSE PollCeiling

check_limit == CheckLimit(g_lorawan_settings.send_repeat_time)

\* a guard with one threshold and no memory
BattGuardOneThreshold(low, level) == level < LowBattLevel

\* app_event_handler, timer block: the protection flag after a reading
BattGuard(low, level) ==
    IF level < LowBattLevel THEN TRUE
    ELSE IF level > HighBattLevel /\ low THEN FALSE
    ELSE low

\* a decision that still waits when exactly min_delay has elapsed
SendNowAfter(repeat, elapsed, md) ==
    ~ (repeat # 0 /\ elapsed <= md)

\* app_event_handler, motion block: the send_now decision
SendNow(repeat, elapsed, md) ==
    ~ (repeat # 0 /\ elapsed < md)

\* app_event_handler, motion block: whether the deferred timer is armed
ArmsTimer(send_now, active) == ~send_now /\ ~active

\* a wait that ignores the time already elapsed
WaitTimeFull(md, elapsed) == md

\* app_event_handler, motion block: wait_time.  abs() of the comparison is
\* 1 when it holds and 0 when it does not.
WaitTime(md, elapsed) ==
    LET cmp == IF md - elapsed >= 0 THEN 1 ELSE 0
        absv == IF cmp < 0 THEN -cmp ELSE cmp
    IN IF absv # 0 THEN md - elapsed ELSE md

\* SoftwareTimer: stop(), reset(), setPeriod(); start() after setPeriod()
TimerStop(t) == [t EXCEPT !.active = FALSE]
TimerSetPeriod(t, ms) == [t EXCEPT !.period = ms]
TimerReset(t, at) == [t EXCEPT !.active = TRUE, !.expiry = at + t.period]
TimerStart(t, at) == TimerReset(t, at)

\* a give that takes the permit back when one is already there
SemGiveFlip(sem) ==
    IF sem = "NULL" THEN "NULL" ELSE IF sem = "FULL" THEN "EMPTY" ELSE "FULL"

\* xSemaphoreGive on the acquisition task's binary semaphore
SemGive(sem) == IF sem = "NULL" THEN "NULL" ELSE "FULL"

\* a take that leaves the semaphore as it finds it
SemTakeMissed(sem) == sem

\* #if GNSS_OFF == 1: digitalWrite(WB_IO2, LOW)
PowerDown(pin) == "LOW"

\* a callback that raises its flag without waking the dispatcher
WakeGiveNone(sem) == sem

\* xSemaphoreGiveFromISR(g_task_sem, ...): the dispatcher's wake-up permit
\* is a binary semaphore, a second give leaves it full
WakeGive(sem) == "FULL"

\* xSemaphoreTake on a semaphore nobody else is waiting for
SemTake(sem) == IF sem = "FULL" THEN "EMPTY" ELSE sem

LastN(n, s) ==
    IF Len(s) <= n THEN s ELSE SubSeq(s, Len(s) - n + 1, Len(s))

\* ------------------------------------------------------------------------
\* The payload encoder
\* ------------------------------------------------------------------------

\* lengths of the position blocks and of the environment block
TRACKER_DATA_SHORT_LEN == 11
TRACKER_DATA_PREC_LEN == 13
ENVIRONMENT_DATA_LEN == 19

\* bytes copied from g_env_data when there is no environment sensor
BattRecordLen == 4

\* integer division of C: the quotient is truncated toward zero
CDiv(a, b) == IF a >= 0 THEN a \div b ELSE 0 - ((0 - a) \div b)

\* pos_union.val8[i] after pos_union.val32 = v (32 bit two's complement,
\* least significant byte first in memory; \div rounds down, so this is
\* byte i of v modulo 2^32)
Val8(v, i) == (v \div (256 ^ i)) % 256

\* x_1 = val8[2]; x_2 = val8[1]; x_3 = val8[0]
Low3(v) == << Val8(v, 2), Val8(v, 1), Val8(v, 0) >>

\* x_1 = val8[3]; x_2 = val8[2]; x_3 = val8[1]; x_4 = val8[0]
All4(v) == << Val8(v, 3), Val8(v, 2), Val8(v, 1), Val8(v, 0) >>

\* g_tracker_data_s: Cayenne LPP precision
TrackerShort(latitude, longitude, altitude) ==
    Low3(CDiv(latitude, 1000)) \o Low3(CDiv(longitude, 1000))
        \o Low3(CDiv(altitude, 10))

\* g_tracker_data_l: extended precision
TrackerPrec(latitude, longitude, altitude) ==
    All4(CDiv(latitude, 10)) \o All4(CDiv(longitude, 10))
        \o Low3(CDiv(altitude, 10))

ZeroFields(n) == [i \in 1..n |-> 0]

\* a conversion of a floating value to an unsigned type: a negative value
\* cannot be represented, the result is not defined; the build gives the
\* value modulo the width (which read back as signed is the value) or 0
UnsignedCast(v) == IF v >= 0 THEN {v} ELSE {v, 0}

\* latitude / longitude / altitude as poll_gnss holds them for a reading
\* of the driver
RawOf(option, fix) ==
    IF option = "RAK12500_GNSS"
    THEN { fix }
    ELSE { [lat |-> la, lon |-> lo, alt |-> al] :
             la \in UnsignedCast(fix.lat), lo \in UnsignedCast(fix.lon),
             al \in UnsignedCast(fix.alt) }

\* a guard that takes every accepted reading
ReadOkAccepted(accepted, latitude, longitude) == accepted

\* the value of last_read_ok that poll_gnss leaves
ReadOk(accepted, latitude, longitude) ==
    accepted /\ ~(latitude = 0 /\ longitude = 0)

\* what poll_gnss leaves in last_read_ok and in the two position blocks:
\* a fix is encoded; a reading at latitude 0 / longitude 0 returns before
\* the blocks are written; without a reading the blocks are set to 0
PollResult(accepted, raw, s, l) ==
    IF ReadOk(accepted, raw.lat, raw.lon)
    THEN [ok |-> TRUE,
          s |-> TrackerShort(raw.lat, raw.lon, raw.alt),
          l |-> TrackerPrec(raw.lat, raw.lon, raw.alt)]
    ELSE IF accepted
    THEN [ok |-> FALSE, s |-> s, l |-> l]
    ELSE [ok |-> FALSE, s |-> ZeroFields(9), l |-> ZeroFields(11)]

PositionLen(prec) ==
    IF prec THEN TRACKER_DATA_PREC_LEN ELSE TRACKER_DATA_SHORT_LEN

EnvLen(sensor) == IF sensor THEN ENVIRONMENT_DATA_LEN ELSE BattRecordLen

\* an invalid-fix frame that keeps a zeroed position block
PacketZeroed(ok, prec, sensor, s, l) ==
    LET zero == IF prec THEN ZeroFields(11) ELSE ZeroFields(9)
        keep == ok \/ ~sensor
    IN [len |-> (IF keep THEN PositionLen(prec) ELSE 0) + EnvLen(sensor),
        blocks |->
          (IF keep
           THEN << [src |-> IF prec THEN "g_tracker_data_l"
                            ELSE "g_tracker_data_s",
                    off |-> 0, n |-> PositionLen(prec),
                    fields |-> IF ~ok THEN zero
                               ELSE IF prec THEN l ELSE s] >>
           ELSE << >>)
          \o << [src |-> "g_env_data",
                 off |-> IF keep THEN PositionLen(prec) ELSE 0,
                 n |-> EnvLen(sensor), fields |-> << >>] >>]

\* a frame whose length is the size of the buffer
PacketFixed(ok, prec, sensor, s, l) ==
    [len |-> TRACKER_DATA_PREC_LEN + ENVIRONMENT_DATA_LEN,
     blocks |->
       (IF ok
        THEN << [src |-> IF prec THEN "g_tracker_data_l"
                         ELSE "g_tracker_data_s",
                 off |-> 0, n |-> PositionLen(prec),
                 fields |-> IF prec THEN l ELSE s] >>
        ELSE << >>)
       \o << [src |-> "g_env_data",
              off |-> IF ok THEN PositionLen(prec) ELSE 0,
              n |-> EnvLen(sensor), fields |-> << >>] >>]

\* packet_buff and packet_len of the fix-completed block, as the memcpy
\* calls made: source, offset in the frame, number of bytes, and for a
\* position block the field bytes that poll_gnss wrote
Packet(ok, prec, sensor, s, l) ==
    [len |-> (IF ok THEN PositionLen(prec) ELSE 0) + EnvLen(sensor),
     blocks |->
       (IF ok
        THEN << [src |-> IF prec THEN "g_tracker_data_l"
                         ELSE "g_tracker_data_s",
                 off |-> 0, n |-> PositionLen(prec),
                 fields |-> IF prec THEN l ELSE s] >>
        ELSE << >>)
       \o << [src |-> "g_env_data",
              off |-> IF ok THEN PositionLen(prec) ELSE 0,
              n |-> EnvLen(sensor), fields |-> << >>] >>]

\* ------------------------------------------------------------------------
\* State after construction (setup_app, init_app)
\* ------------------------------------------------------------------------
\* the tasks that update the flag word with a load and a store
Writers == {"loop", "gnss"}

\* no task is in the middle of an update
RmwIdle == [w \in Writers |-> [held |-> FALSE, reg |-> {}, op |-> "", flag |-> ""]]

\* the values init_app leaves in the program's variables
Boot(settings) ==
    [last_pos_send |-> 0,
     delayed_active |-> FALSE,
     delayed_sending |->
         [active |-> FALSE,
          period |-> MinDelayOf(settings.send_repeat_time), expiry |-> 0],
     \* P2P: the periodic timer runs from the start; LoRaWAN: from the join
     g_task_wakeup_timer |->
         [active |-> (~settings.lorawan_enable
                        /\ settings.send_repeat_time # 0),
          period |-> settings.send_repeat_time,
          expiry |-> settings.send_repeat_time],
     \* P2P: init_app creates the semaphore and the task and sets joined
     g_lpwan_has_joined |-> ~settings.lorawan_enable,
     g_gnss_sem |-> IF settings.lorawan_enable THEN "NULL" ELSE "EMPTY",
     gnss_pc |-> IF settings.lorawan_enable THEN "none" ELSE "wait",
     \* init_app powers the module; gnss_task powers it down when it starts
     WB_IO2 |-> IF settings.lorawan_enable THEN "HIGH" ELSE "LOW"]

InitFor(settings, option) ==
    /\ g_lorawan_settings = settings
    /\ gnss_option = option
    /\ now = 0
    /\ g_task_event_type = {}
    /\ last_pos_send = Boot(settings).last_pos_send
    /\ delayed_active = Boot(settings).delayed_active
    /\ delayed_sending = Boot(settings).delayed_sending
    /\ g_task_wakeup_timer = Boot(settings).g_task_wakeup_timer
    /\ send_fail = 0
    /\ low_batt_protection = FALSE
    /\ g_lpwan_has_joined = Boot(settings).g_lpwan_has_joined
    /\ g_join_result = FALSE
    /\ g_rx_fin_result = FALSE
    /\ g_gnss_sem = Boot(settings).g_gnss_sem
    /\ gnss_pc = Boot(settings).gnss_pc
    /\ time_out = 0
    /\ last_read_ok = FALSE
    /\ loop_pc = "app"
    /\ g_task_sem = "EMPTY"
    /\ WB_IO2 = Boot(settings).WB_IO2
    /\ fix_type = 0
    /\ rmw = RmwIdle

\* the polling loop ended without a reading
NoReading ==
    [accepted |-> FALSE, lat |-> 0, lon |-> 0, alt |-> 0,
     driver |-> [lat |-> 0, lon |-> 0, alt |-> 0]]

HistoryInit ==
    /\ handled = {}
    /\ radio_log = << >>
    /\ at_log = << >>
    /\ last_frame = -1
    /\ batt_hist = << >>
    /\ consec_fail = 0
    /\ restart_at = << >>
    /\ permit_given = FALSE
    /\ permit_owed = 0
    /\ last_reading = NoReading

\* the encoder's globals: precision mode, init_bme() result, empty blocks
EncoderInit(precs, sensors) ==
    /\ g_gps_prec_6 \in precs
    /\ has_env_sensor \in sensors
    /\ g_tracker_data_s = ZeroFields(9)
    /\ g_tracker_data_l = ZeroFields(11)

SettingsOf(repeats, radios) ==
    { [send_repeat_time |-> r, lorawan_enable |-> rs[1],
       lora_region |-> rs[2], data_rate |-> rs[3]] :
         r \in repeats, rs \in radios }

InitAll(repeats, radios, options, precs, sensors) ==
    /\ \E settings \in SettingsOf(repeats, radios), option \in options :
           InitFor(settings, option)
    /\ HistoryInit
    /\ EncoderInit(precs, sensors)

InitWith(repeats, radios, options) ==
    InitAll(repeats, radios, options, {TRUE}, {FALSE})

Init == InitWith(RepeatTimes, {<<TRUE, 5, 0>>, <<FALSE, 5, 0>>},
                 {"RAK12500_GNSS"})

\* ------------------------------------------------------------------------
\* app_event_handler
\* ------------------------------------------------------------------------

\* the dispatcher's view of the state at the start of the handler
AppState ==
    [ev |-> g_task_event_type, low |-> low_batt_protection,
     sem |-> g_gnss_sem, wake |-> g_task_wakeup_timer,
     dly |-> delayed_sending, dact |-> delayed_active,
     last |-> last_pos_send, log |-> << >>, at |-> << >>,
     hd |-> {}, lf |-> last_frame,
     bh |-> batt_hist, pg |-> FALSE, owed |-> permit_owed]

\* Battery Guard: flag and periodic timer after a reading
GuardTimer(wake, low, level) ==
    IF level < LowBattLevel
    THEN TimerReset(TimerSetPeriod(wake, OneHourMs), now)
    ELSE IF level > HighBattLevel /\ low
    THEN TimerReset(
             TimerSetPeriod(wake, g_lorawan_settings.send_repeat_time), now)
    ELSE wake

\* send of the 4 byte battery payload and the tag printed for its result
BattSend(s, res) ==
    IF g_lorawan_settings.lorawan_enable
    THEN [s EXCEPT
            !.log = Append(@, [fn |-> "send_lora_packet", kind |-> "batt",
                               len |-> BattPayloadLen, res |-> res]),
            !.at = IF res = "LMH_BUSY" THEN Append(@, "+EVT:BUSY")
                   ELSE IF res = "LMH_ERROR" THEN Append(@, "+EVT:SIZE_ERROR")
                   ELSE @]
    ELSE [s EXCEPT
            !.log = Append(@, [fn |-> "send_p2p_packet", kind |-> "batt",
                               len |-> BattPayloadLen, res |-> res])]

\* whether the timer block releases the acquisition task's permit
GivesPermit(low, option) == ~low /\ option # "NO_GNSS_INIT"

\* whether the timer block sends the battery payload
SendsBattOnly(low, option) == low \/ option = "NO_GNSS_INIT"

\* Timer triggered event (STATUS)
StatusBlock(s, level, res, depth, cap) ==
    LET give == GivesPermit(s.low, gnss_option)
        low2 == BattGuard(s.low, level)
        s1 == [s EXCEPT
                 !.ev = @ \ {"STATUS"},
                 !.hd = @ \cup {"STATUS"},
                 !.sem = IF give THEN SemGive(@) ELSE @,
                 !.pg = give,
                 !.owed = IF give /\ @ < cap THEN @ + 1 ELSE @,
                 !.low = low2,
                 !.wake = GuardTimer(@, s.low, level),
                 !.bh = LastN(depth, Append(@, [before |-> s.low,
                                                level |-> level,
                                                after |-> low2]))]
    IN IF SendsBattOnly(low2, gnss_option) THEN BattSend(s1, res) ELSE s1

\* ACC trigger event
AccBlock(s) ==
    LET repeat == g_lorawan_settings.send_repeat_time
        elapsed == now - s.last
        send_now == SendNow(repeat, elapsed, min_delay)
        arm == ArmsTimer(send_now, s.dact)
        armed == TimerStart(
                     TimerSetPeriod(TimerStop(s.dly),
                                    WaitTime(min_delay, elapsed)), now)
    IN [s EXCEPT
          !.ev = IF send_now THEN (@ \ {"ACC_TRIGGER"}) \cup {"STATUS"}
                 ELSE @ \ {"ACC_TRIGGER"},
          !.hd = @ \cup {"ACC_TRIGGER"},
          !.dly = IF arm THEN armed ELSE @,
          !.dact = IF arm THEN TRUE ELSE @,
          !.last = IF send_now THEN now ELSE @,
          !.wake = IF repeat # 0 THEN TimerReset(@, now) ELSE @]

\* a check of the region alone
RateRejectedAnyRate(settings) ==
    /\ settings.lorawan_enable
    /\ settings.lora_region = RestrictedRegion

\* whether the fix-completed block refuses the frame (+EVT:DR_ERROR)
RateRejected(settings) ==
    /\ settings.lorawan_enable
    /\ settings.lora_region = RestrictedRegion
    /\ settings.data_rate = 0

\* calls that are repeated after any result but LMH_SUCCESS
LoraAttemptsUntilTaken(res) ==
    IF res[1] = "LMH_SUCCESS" THEN 1
    ELSE IF res[2] = "LMH_SUCCESS" THEN 2
    ELSE 3

\* the send calls of the fix-completed block over LoRaWAN: a second call
\* after LMH_ERROR, a third after a second LMH_ERROR
LoraAttempts(res) ==
    IF res[1] # "LMH_ERROR" THEN 1
    ELSE IF res[2] # "LMH_ERROR" THEN 2
    ELSE 3

\* the results of up to three send calls; a call that is not made is
\* written as LMH_SUCCESS
SendScripts(results) ==
    { f \in [1..3 -> results] :
        \A i \in 1..3 : i > LoraAttempts(f) => f[i] = "LMH_SUCCESS" }

\* tags that report the size error only when the third call failed
LoraTagsByResult(res) ==
    IF res[1] = "LMH_SUCCESS" THEN << >>
    ELSE IF res[1] = "LMH_BUSY" THEN << "+EVT:BUSY" >>
    ELSE IF res[2] = "LMH_SUCCESS" THEN << >>
    ELSE IF res[2] = "LMH_BUSY" THEN << "+EVT:BUSY" >>
    ELSE IF res[3] = "LMH_ERROR"
    THEN << "+EVT:SIZE_ERROR RETRY", "+EVT:SIZE_ERROR" >>
    ELSE << "+EVT:SIZE_ERROR RETRY" >>

\* the tags printed by the fix-completed block over LoRaWAN
LoraTags(res) ==
    IF res[1] = "LMH_SUCCESS" THEN << >>
    ELSE IF res[1] = "LMH_BUSY" THEN << "+EVT:BUSY" >>
    ELSE IF res[2] = "LMH_SUCCESS" THEN << >>
    ELSE IF res[2] = "LMH_BUSY" THEN << "+EVT:BUSY" >>
    ELSE << "+EVT:SIZE_ERROR RETRY", "+EVT:SIZE_ERROR" >>

FrameCall(fn, res) ==
    LET p == Packet(last_read_ok, g_gps_prec_6, has_env_sensor,
                    g_tracker_data_s, g_tracker_data_l)
    IN [fn |-> fn, kind |-> IF last_read_ok THEN "position" ELSE "nofix",
        res |-> res, len |-> p.len, blocks |-> p.blocks]

\* GNSS location search finished (GNSS_FIN)
FinBlock(s, res, cap) ==
    LET s1 == [s EXCEPT
                 !.ev = @ \ {"GNSS_FIN"},
                 !.owed = IF cap > 0 THEN @ - 1 ELSE @,
                 !.hd = @ \cup {"GNSS_FIN"},
                 !.last = now,
                 !.dact = FALSE]
        n == LoraAttempts(res)
        \* the radio takes a frame that holds a position
        taken == last_read_ok /\ \E i \in 1..n : res[i] = "LMH_SUCCESS"
        taken1 == last_read_ok /\ res[1] = "LMH_SUCCESS"
    IN IF RateRejected(g_lorawan_settings)
       THEN [s1 EXCEPT !.at = Append(@, "+EVT:DR_ERROR")]
       ELSE IF g_lorawan_settings.lorawan_enable
       THEN [s1 EXCEPT
               !.log = @ \o [i \in 1..n |->
                               FrameCall("send_lora_packet", res[i])],
               !.at = @ \o LoraTags(res),
               !.lf = IF taken THEN now ELSE @]
       ELSE [s1 EXCEPT
               !.log = Append(@, FrameCall("send_p2p_packet", res[1])),
               !.at = IF res[1] = "LMH_SUCCESS" THEN @
                      ELSE Append(@, "+EVT:SIZE_ERROR"),
               !.lf = IF taken1 THEN now ELSE @]

\* the three blocks in the order of the handler
AppResult(level, bres, fres, depth, cap) ==
    LET s0 == AppState
        s1 == IF "STATUS" \in s0.ev
              THEN StatusBlock(s0, level, bres, depth, cap) ELSE s0
        s2 == IF "ACC_TRIGGER" \in s1.ev /\ g_lpwan_has_joined
              THEN AccBlock(s1) ELSE s1
    IN IF "GNSS_FIN" \in s2.ev THEN FinBlock(s2, fres, cap) ELSE s2

app_event_handler(levels, results, depth, cap) ==
    /\ loop_pc = "app"
    /\ \E level \in (IF "STATUS" \in g_task_event_type
                     THEN levels ELSE {300}),
          bres \in (IF "STATUS" \in g_task_event_type
                    THEN results ELSE {"LMH_SUCCESS"}),
          fres \in (IF "GNSS_FIN" \in g_task_event_type
                    THEN SendScripts(results)
                    ELSE {[i \in 1..3 |-> "LMH_SUCCESS"]}) :
         LET s == AppResult(level, bres, fres, depth, cap)
         IN /\ g_task_event_type' = s.ev
            /\ low_batt_protection' = s.low
            /\ g_gnss_sem' = s.sem
            /\ g_task_wakeup_timer' = s.wake
            /\ delayed_sending' = s.dly
            /\ delayed_active' = s.dact
            /\ last_pos_send' = s.last
            /\ radio_log' = s.log
            /\ at_log' = s.at
            /\ last_frame' = s.lf
            /\ batt_hist' = s.bh
            /\ permit_given' = s.pg
            /\ permit_owed' = s.owed
            /\ handled' = s.hd
    /\ g_task_sem' = SemTake(g_task_sem)
    /\ loop_pc' = "ble"
    /\ UNCHANGED << g_lorawan_settings, gnss_option, rmw, fix_type, WB_IO2,
                    g_gps_prec_6, has_env_sensor,
                    g_tracker_data_s, g_tracker_data_l, last_reading,
                    now, send_fail,
                    g_lpwan_has_joined, g_join_result, g_rx_fin_result,
                    gnss_pc, time_out, last_read_ok, consec_fail,
                    restart_at >>

\* ------------------------------------------------------------------------
\* ble_data_handler
\* ------------------------------------------------------------------------
ble_data_handler ==
    /\ loop_pc = "ble"
    /\ g_task_event_type' = g_task_event_type \ {"BLE_DATA"}
    /\ handled' = g_task_event_type \cap {"BLE_DATA"}
    /\ loop_pc' = "lora"
    /\ UNCHANGED << g_lorawan_settings, gnss_option, rmw, fix_type, WB_IO2,
                    g_task_sem, g_gps_prec_6, has_env_sensor,
                    g_tracker_data_s, g_tracker_data_l, last_reading,
                    now, last_pos_send,
                    delayed_active, delayed_sending, g_task_wakeup_timer,
                    send_fail, low_batt_protection, g_lpwan_has_joined,
                    g_join_result, g_rx_fin_result, g_gnss_sem, gnss_pc,
                    time_out, last_read_ok, radio_log, at_log,
                    last_frame, batt_hist, consec_fail, restart_at,
                    permit_given,
                    permit_owed >>

\* ------------------------------------------------------------------------
\* lora_data_handler
\* ------------------------------------------------------------------------

\* the failure counter after a tx-completed event (uint8_t)
SendFailAfter(count, ack) ==
    IF ack THEN count ELSE (count + 1) % 256

\* whether the tx-completed block restarts the device
Restarts(count, ack) ==
    ~ack /\ SendFailAfter(count, ack) = MaxSendFail

\* sd_nvic_SystemReset(): the program starts again with its stored settings
SystemReset ==
    /\ UNCHANGED << g_lorawan_settings, gnss_option, rmw, g_gps_prec_6,
                    has_env_sensor >>
    /\ now' = 0
    /\ g_task_event_type' = {}
    /\ last_pos_send' = Boot(g_lorawan_settings).last_pos_send
    /\ delayed_active' = Boot(g_lorawan_settings).delayed_active
    /\ delayed_sending' = Boot(g_lorawan_settings).delayed_sending
    /\ g_task_wakeup_timer' = Boot(g_lorawan_settings).g_task_wakeup_timer
    /\ send_fail' = 0
    /\ low_batt_protection' = FALSE
    /\ g_lpwan_has_joined' = Boot(g_lorawan_settings).g_lpwan_has_joined
    /\ g_join_result' = FALSE
    /\ g_rx_fin_result' = FALSE
    /\ g_gnss_sem' = Boot(g_lorawan_settings).g_gnss_sem
    /\ gnss_pc' = Boot(g_lorawan_settings).gnss_pc
    /\ time_out' = 0
    /\ last_read_ok' = FALSE
    /\ loop_pc' = "app"
    /\ handled' = {}
    /\ radio_log' = << >>
    /\ at_log' = << >>
    /\ last_frame' = -1
    /\ batt_hist' = << >>
    /\ permit_given' = FALSE
    /\ permit_owed' = 0
    /\ g_tracker_data_s' = ZeroFields(9)
    /\ g_tracker_data_l' = ZeroFields(11)
    /\ last_reading' = NoReading
    /\ g_task_sem' = "EMPTY"
    /\ WB_IO2' = Boot(g_lorawan_settings).WB_IO2
    /\ fix_type' = 0

lora_data_handler ==
    /\ loop_pc = "lora"
    /\ LET join == "LORA_JOIN_FIN" \in g_task_event_type
           tx == "LORA_TX_FIN" \in g_task_event_type
           done == g_task_event_type
                     \cap {"LORA_JOIN_FIN", "LORA_TX_FIN", "LORA_DATA"}
           fails == IF g_rx_fin_result THEN 0 ELSE consec_fail + 1
       IN IF tx /\ Restarts(send_fail, g_rx_fin_result)
          THEN /\ SystemReset
               /\ consec_fail' = 0
               /\ restart_at' = Append(restart_at, fails)
          ELSE /\ g_task_event_type' = g_task_event_type \ done
               /\ handled' = done
               /\ IF join /\ g_join_result
                  THEN /\ g_gnss_sem' = SemTake(SemGive("EMPTY"))
                       /\ gnss_pc' = "wait"
                       /\ WB_IO2' = PowerDown(WB_IO2)
                       /\ last_pos_send' = now
                  ELSE UNCHANGED << g_gnss_sem, gnss_pc, WB_IO2,
                                    last_pos_send >>
               /\ send_fail' = IF tx
                               THEN SendFailAfter(send_fail, g_rx_fin_result)
                               ELSE send_fail
               /\ consec_fail' = IF tx THEN fails ELSE consec_fail
               /\ loop_pc' = "app"
               /\ UNCHANGED << g_lorawan_settings, gnss_option, rmw, fix_type,
                               g_task_sem, g_gps_prec_6, has_env_sensor,
                               g_tracker_data_s, g_tracker_data_l, last_reading,
                               now,
                               delayed_active, delayed_sending,
                               g_task_wakeup_timer, low_batt_protection,
                               g_lpwan_has_joined, g_join_result,
                               g_rx_fin_result, time_out, last_read_ok,
                               radio_log, at_log, last_frame, batt_hist,
                               restart_at, permit_given,
                    permit_owed >>

\* ------------------------------------------------------------------------
\* gnss_task
\* ------------------------------------------------------------------------

\* xSemaphoreTake succeeds; poll_gnss clears last_read_ok and starts polling
gnss_take ==
    /\ gnss_pc = "wait"
    /\ g_gnss_sem = "FULL"
    /\ g_gnss_sem' = "EMPTY"
    /\ gnss_pc' = "poll"
    /\ time_out' = now
    /\ last_read_ok' = FALSE
    /\ WB_IO2' = "HIGH"
    /\ fix_type' = 0
    /\ UNCHANGED << g_lorawan_settings, gnss_option, rmw, g_task_sem, g_gps_prec_6, has_env_sensor,
                    g_tracker_data_s, g_tracker_data_l, last_reading,
                    now, g_task_event_type,
                    last_pos_send, delayed_active, delayed_sending,
                    g_task_wakeup_timer, send_fail, low_batt_protection,
                    g_lpwan_has_joined, g_join_result, g_rx_fin_result,
                    loop_pc, handled, radio_log, at_log,
                    last_frame, batt_hist,
                    consec_fail, restart_at, permit_given,
                    permit_owed >>

\* a polling loop that ends only with a fix
PollContinuesUntilFix(elapsed, limit) == TRUE

\* whether the polling loop runs another round
PollContinues(elapsed, limit) == elapsed < limit

\* the least fix type poll_gnss accepts
Fix3D == 3

\* a reading of the driver (1e-7 degree, 1e-7 degree, mm)
DefaultFix == [lat |-> 145678912, lon |-> 1210123456, alt |-> 123456]

\* the driver's reading for an outcome of the polling loop
DriverReading(outcome, fix) ==
    IF outcome = "zero" THEN [fix EXCEPT !.lat = 0, !.lon = 0] ELSE fix

\* the polling loop ends in one of outcomes and poll_gnss returns; the
\* driver's reading is one of fixes, or one of them at latitude 0 /
\* longitude 0
poll_gnss(outcomes, fixes) ==
    /\ gnss_pc = "poll"
    /\ \E outcome \in outcomes, fix \in fixes :
         \E raw \in RawOf(gnss_option, DriverReading(outcome, fix)) :
           LET p == PollResult(outcome # "nofix", raw,
                               g_tracker_data_s, g_tracker_data_l)
           IN /\ IF outcome = "nofix"
                 THEN ~PollContinues(now - time_out, check_limit)
                 ELSE PollContinues(now - time_out, check_limit)
              /\ last_read_ok' = p.ok
              /\ g_tracker_data_s' = p.s
              /\ g_tracker_data_l' = p.l
              /\ last_reading' =
                   IF outcome = "nofix" THEN NoReading
                   ELSE [accepted |-> TRUE, lat |-> raw.lat,
                         lon |-> raw.lon, alt |-> raw.alt,
                         driver |-> DriverReading(outcome, fix)]
              /\ fix_type' = IF outcome = "nofix" THEN fix_type ELSE Fix3D
    /\ WB_IO2' = PowerDown(WB_IO2)
    /\ UNCHANGED << g_lorawan_settings, gnss_option, g_gps_prec_6,
                    has_env_sensor, now, last_pos_send,
                    delayed_active, delayed_sending, g_task_wakeup_timer,
                    send_fail, low_batt_protection, g_lpwan_has_joined,
                    g_join_result, g_rx_fin_result, g_gnss_sem, time_out,
                    loop_pc, handled, radio_log, at_log,
                    last_frame, batt_hist,
                    consec_fail, restart_at, permit_given,
                    permit_owed >>

\* poll_gnss returns and gnss_task raises GNSS_FIN and wakes the dispatcher
gnss_end(outcomes, fixes) ==
    /\ poll_gnss(outcomes, fixes)
    /\ g_task_event_type' = g_task_event_type \cup {"GNSS_FIN"}
    /\ g_task_sem' = WakeGive(g_task_sem)
    /\ gnss_pc' = "wait"
    /\ UNCHANGED rmw

gnss_poll(fixes) == gnss_end(PollOutcomes, fixes)

\* one round of the polling loop that does not end it: the module reports
\* no fix (getGnssFixOk() false, the task sleeps a second) or a fix of a
\* type below 3-D (the loop goes straight to its next round)
gnss_round(reports) ==
    /\ gnss_pc = "poll"
    /\ PollContinues(now - time_out, check_limit)
    /\ \E r \in reports :
         /\ r < Fix3D
         /\ fix_type' = r
    /\ UNCHANGED << g_lorawan_settings, gnss_option, rmw, g_task_sem, WB_IO2,
                    g_gps_prec_6, has_env_sensor,
                    g_tracker_data_s, g_tracker_data_l, last_reading,
                    now, g_task_event_type,
                    last_pos_send, delayed_active, delayed_sending,
                    g_task_wakeup_timer, send_fail, low_batt_protection,
                    g_lpwan_has_joined, g_join_result, g_rx_fin_result,
                    g_gnss_sem, gnss_pc, time_out, last_read_ok,
                    loop_pc, handled, radio_log, at_log,
                    last_frame, batt_hist,
                    consec_fail, restart_at, permit_given,
                    permit_owed >>

\* the module reports a 3-D fix before the time limit
gnss_report == gnss_end({"fix", "zero"}, {DefaultFix})

\* the time limit passes without a 3-D fix
gnss_give_up == gnss_end({"nofix"}, {DefaultFix})

gnss_finish == gnss_poll({DefaultFix})

\* ------------------------------------------------------------------------
\* Timer callbacks
\* ------------------------------------------------------------------------

\* the one-shot timer expires: send_delayed raises STATUS
send_delayed ==
    /\ delayed_sending.active
    /\ now = delayed_sending.expiry
    /\ g_task_event_type' = g_task_event_type \cup {"STATUS"}
    /\ g_task_sem' = WakeGive(g_task_sem)
    /\ delayed_sending' = TimerStop(delayed_sending)
    /\ UNCHANGED << g_lorawan_settings, gnss_option, rmw, fix_type, WB_IO2,
                    g_gps_prec_6, has_env_sensor,
                    g_tracker_data_s, g_tracker_data_l, last_reading,
                    now, last_pos_send,
                    delayed_active, g_task_wakeup_timer, send_fail,
                    low_batt_protection, g_lpwan_has_joined, g_join_result,
                    g_rx_fin_result, g_gnss_sem, gnss_pc, time_out,
                    last_read_ok, loop_pc, handled, radio_log,
                    at_log, last_frame,
                    batt_hist, consec_fail, restart_at, permit_given,
                    permit_owed >>

\* a timer with period 0 is taken never to expire
Runs(t) == t.active /\ t.period > 0

\* the periodic timer expires: its callback raises STATUS, the timer reloads
periodic_wakeup ==
    /\ Runs(g_task_wakeup_timer)
    /\ now = g_task_wakeup_timer.expiry
    /\ g_task_event_type' = g_task_event_type \cup {"STATUS"}
    /\ g_task_sem' = WakeGive(g_task_sem)
    /\ g_task_wakeup_timer' = TimerReset(g_task_wakeup_timer, now)
    /\ UNCHANGED << g_lorawan_settings, gnss_option, rmw, fix_type, WB_IO2,
                    g_gps_prec_6, has_env_sensor,
                    g_tracker_data_s, g_tracker_data_l, last_reading,
                    now, last_pos_send,
                    delayed_active, delayed_sending, send_fail,
                    low_batt_protection, g_lpwan_has_joined, g_join_result,
                    g_rx_fin_result, g_gnss_sem, gnss_pc, time_out,
                    last_read_ok, loop_pc, handled, radio_log,
                    at_log, last_frame,
                    batt_hist, consec_fail, restart_at, permit_given,
                    permit_owed >>

\* ------------------------------------------------------------------------
\* Signal sources outside the dispatcher
\* ------------------------------------------------------------------------
RaiseOnly(flag) ==
    /\ g_task_event_type' = g_task_event_type \cup {flag}
    /\ g_task_sem' = WakeGive(g_task_sem)
    /\ UNCHANGED << g_lorawan_settings, gnss_option, rmw, fix_type, WB_IO2,
                    g_gps_prec_6, has_env_sensor,
                    g_tracker_data_s, g_tracker_data_l, last_reading,
                    now, last_pos_send,
                    delayed_active, delayed_sending, g_task_wakeup_timer,
                    send_fail, low_batt_protection, g_lpwan_has_joined,
                    g_join_result, g_gnss_sem, gnss_pc, time_out,
                    last_read_ok, loop_pc, handled, radio_log,
                    at_log, last_frame, batt_hist, consec_fail, restart_at,
                    permit_given,
                    permit_owed >>

\* accelerometer interrupt
acc_interrupt ==
    /\ RaiseOnly("ACC_TRIGGER")
    /\ UNCHANGED g_rx_fin_result

\* BLE UART data arrived
ble_rx ==
    /\ RaiseOnly("BLE_DATA")
    /\ UNCHANGED g_rx_fin_result

\* a LoRa packet arrived
lora_rx ==
    /\ g_lpwan_has_joined
    /\ RaiseOnly("LORA_DATA")
    /\ UNCHANGED g_rx_fin_result

\* the radio finished a transmission, acknowledged or not
lora_tx_finished ==
    /\ g_lpwan_has_joined
    /\ Len(restart_at) < MaxRestarts
    /\ \E ack \in BOOLEAN : g_rx_fin_result' = ack
    /\ RaiseOnly("LORA_TX_FIN")

\* the join handshake ended; on success the periodic timer is started
join_finished ==
    /\ g_lorawan_settings.lorawan_enable
    /\ ~g_lpwan_has_joined
    /\ \E ok \in BOOLEAN :
         /\ g_join_result' = ok
         /\ g_lpwan_has_joined' = ok
         /\ g_task_wakeup_timer' =
              IF ok /\ g_lorawan_settings.send_repeat_time # 0
              THEN TimerReset(g_task_wakeup_timer, now)
              ELSE g_task_wakeup_timer
    /\ g_task_event_type' = g_task_event_type \cup {"LORA_JOIN_FIN"}
    /\ g_task_sem' = WakeGive(g_task_sem)
    /\ UNCHANGED << g_lorawan_settings, gnss_option, rmw, fix_type, WB_IO2,
                    g_gps_prec_6, has_env_sensor,
                    g_tracker_data_s, g_tracker_data_l, last_reading,
                    now, last_pos_send,
                    delayed_active, delayed_sending, send_fail,
                    low_batt_protection, g_rx_fin_result, g_gnss_sem,
                    gnss_pc, time_out, last_read_ok, loop_pc, handled,
                    radio_log, at_log, last_frame, batt_hist, consec_fail,
                    restart_at, permit_given,
                    permit_owed >>

\* ------------------------------------------------------------------------
\* The clock
\* ------------------------------------------------------------------------

\* times the clock does not pass before the timer or the task has acted
Deadlines ==
    (IF delayed_sending.active THEN {delayed_sending.expiry} ELSE {})
    \cup (IF Runs(g_task_wakeup_timer)
          THEN {g_task_wakeup_timer.expiry} ELSE {})
    \cup (IF gnss_pc = "poll" THEN {time_out + check_limit} ELSE {})

\* millis() advances by one tick, or once from the ticked range to the
\* next deadline
tick ==
    /\ \E t \in {now + TickMs} \cup Deadlines :
         /\ t > now
         /\ \A d \in Deadlines : t <= d
         /\ IF t = now + TickMs THEN t <= MaxTime
            ELSE now <= MaxTime /\ t <= HorizonMs
         /\ now' = t
    /\ UNCHANGED << g_lorawan_settings, gnss_option, rmw, fix_type, WB_IO2,
                    g_task_sem, g_gps_prec_6, has_env_sensor,
                    g_tracker_data_s, g_tracker_data_l, last_reading,
                    g_task_event_type,
                    last_pos_send, delayed_active, delayed_sending,
                    g_task_wakeup_timer, send_fail, low_batt_protection,
                    g_lpwan_has_joined, g_join_result, g_rx_fin_result,
                    g_gnss_sem, gnss_pc, time_out, last_read_ok, loop_pc,
                    handled, radio_log, at_log, last_frame,
                    batt_hist, consec_fail, restart_at, permit_given,
                    permit_owed >>

\* the clock of a prompt dispatcher: it advances only between passes, when
\* no event is waiting to be handled
tick_idle ==
    /\ loop_pc = "app"
    /\ g_task_event_type = {}
    /\ tick

\* the clock of a sleeping device: it advances to the next deadline
tick_far ==
    /\ \E t \in Deadlines :
         /\ t > now
         /\ \A d \in Deadlines : t <= d
         /\ t <= FarHorizonMs
         /\ now' = t
    /\ UNCHANGED << g_lorawan_settings, gnss_option, rmw, fix_type, WB_IO2,
                    g_task_sem, g_gps_prec_6, has_env_sensor,
                    g_tracker_data_s, g_tracker_data_l, last_reading,
                    g_task_event_type,
                    last_pos_send, delayed_active, delayed_sending,
                    g_task_wakeup_timer, send_fail, low_batt_protection,
                    g_lpwan_has_joined, g_join_result, g_rx_fin_result,
                    g_gnss_sem, gnss_pc, time_out, last_read_ok, loop_pc,
                    handled, radio_log, at_log, last_frame,
                    batt_hist, consec_fail, restart_at, permit_given,
                    permit_owed >>

\* ------------------------------------------------------------------------
\* Specifications
\* ------------------------------------------------------------------------
\* The scheduling core: motion, both timers, the join, the acquisition task
\* and the clock; the battery is good and the radio takes every frame.
Next ==
    \/ app_event_handler({300}, {"LMH_SUCCESS"}, 0, 0)
    \/ ble_data_handler
    \/ lora_data_handler
    \/ gnss_take
    \/ gnss_finish
    \/ send_delayed
    \/ periodic_wakeup
    \/ acc_interrupt
    \/ join_finished
    \/ tick

Spec == Init /\ [][Next]_vars

\* Motion only, P2P, a prompt dispatcher: the periodic timer never expires
\* (every motion event resets it, and the clock stops at its expiry), so
\* every STATUS event and every acquisition comes from a motion event.
InitMotion == InitWith({4000, 60000}, {<<FALSE, 5, 0>>}, {"RAK12500_GNSS"})

NextMotion ==
    \/ app_event_handler({300}, {"LMH_SUCCESS"}, 0, 0)
    \/ ble_data_handler
    \/ lora_data_handler
    \/ gnss_take
    \/ gnss_finish
    \/ send_delayed
    \/ acc_interrupt
    \/ tick_idle

SpecMotion == InitMotion /\ [][NextMotion]_vars

\* The battery: timer events raised by motion events (send_repeat_time = 0,
\* so every motion event sends now), every battery level, no clock and an
\* acquisition task that does not get to run.
InitBatt == InitWith({0}, {<<FALSE, 5, 0>>}, {"RAK12500_GNSS"})

NextBatt ==
    \/ app_event_handler(BattLevels, {"LMH_SUCCESS"}, 3, 0)
    \/ ble_data_handler
    \/ lora_data_handler
    \/ acc_interrupt

SpecBatt == InitBatt /\ [][NextBatt]_vars

\* The radio: every stored radio setting and every result of a send call,
\* good and low battery, no clock.
InitRadio == InitWith({0}, RadioSettings, GnssOptions)

NextRadio ==
    \/ app_event_handler({280, 300}, LmhResults, 0, 0)
    \/ ble_data_handler
    \/ lora_data_handler
    \/ gnss_take
    \/ gnss_finish
    \/ acc_interrupt
    \/ join_finished

SpecRadio == InitRadio /\ [][NextRadio]_vars

\* The tx-completed events of a joined LoRaWAN node.
InitTx == InitWith({0}, {<<TRUE, 5, 0>>}, {"RAK12500_GNSS"})

NextTx ==
    \/ app_event_handler({300}, {"LMH_SUCCESS"}, 0, 0)
    \/ ble_data_handler
    \/ lora_data_handler
    \/ join_finished
    \/ lora_tx_finished
    \/ lora_rx
    \/ ble_rx

SpecTx == InitTx /\ [][NextTx]_vars

\* The permit: timer events raised by motion events (send_repeat_time = 0),
\* the acquisition task, and the count of releases against fix-completed
\* events.
InitPermit ==
    InitWith({0}, {<<TRUE, 5, 0>>, <<FALSE, 5, 0>>}, {"RAK12500_GNSS"})

NextPermit ==
    \/ app_event_handler({300}, {"LMH_SUCCESS"}, 0, PermitCap)
    \/ ble_data_handler
    \/ lora_data_handler
    \/ gnss_take
    \/ gnss_finish
    \/ acc_interrupt
    \/ join_finished

SpecPermit == InitPermit /\ [][NextPermit]_vars

\* The polling time limit: P2P, long send intervals, the periodic timer and
\* a clock that runs from deadline to deadline; no motion.
InitPoll == InitWith(PollRepeats, {<<FALSE, 5, 0>>}, {"RAK12500_GNSS"})

NextPoll ==
    \/ app_event_handler({300}, {"LMH_SUCCESS"}, 0, 0)
    \/ ble_data_handler
    \/ lora_data_handler
    \/ gnss_take
    \/ gnss_finish
    \/ periodic_wakeup
    \/ tick_far

SpecPoll == InitPoll /\ [][NextPoll]_vars

\* The frame: both precision modes, with and without environment sensor,
\* P2P, every motion event starts an acquisition (send_repeat_time = 0),
\* two readings of the driver, and a clock that runs to the polling time
\* limit.
SouthWestFix == [lat |-> -338688001, lon |-> -701234567, alt |-> -12345]

FrameFixes == {DefaultFix, SouthWestFix}

InitFrame ==
    InitAll({0}, {<<FALSE, 5, 0>>}, {"RAK12500_GNSS"}, BOOLEAN, BOOLEAN)

NextFrame ==
    \/ app_event_handler({300}, {"LMH_SUCCESS"}, 0, 0)
    \/ ble_data_handler
    \/ lora_data_handler
    \/ gnss_take
    \/ gnss_poll(FrameFixes)
    \/ acc_interrupt
    \/ tick_far

SpecFrame == InitFrame /\ [][NextFrame]_vars

\* The encoding: both positioning modules and both precision modes, P2P,
\* every motion event starts an acquisition (send_repeat_time = 0), readings
\* at the ends and inside of the ranges of latitude, longitude and altitude,
\* no clock (every polling loop ends with a reading).
EncodeFixes ==
    { [lat |-> 900000000, lon |-> 1800000000, alt |-> 83886079],
      [lat |-> -900000000, lon |-> -1800000000, alt |-> -83886080],
      [lat |-> 1, lon |-> -1, alt |-> 9],
      [lat |-> -999, lon |-> 999, alt |-> -9],
      [lat |-> -338688001, lon |-> 1512092999, alt |-> 58000],
      [lat |-> 404040404, lon |-> -740059999, alt |-> -10] }

InitEncode ==
    InitAll({0}, {<<FALSE, 5, 0>>}, {"RAK12500_GNSS", "RAK1910_GNSS"},
            BOOLEAN, {FALSE})

NextEncode ==
    \/ app_event_handler({300}, {"LMH_SUCCESS"}, 0, 0)
    \/ ble_data_handler
    \/ lora_data_handler
    \/ gnss_take
    \/ gnss_poll(EncodeFixes)
    \/ acc_interrupt

SpecEncode == InitEncode /\ [][NextEncode]_vars

\* The battery guard's timer: P2P, send_repeat_time 4000, timer events from
\* the periodic timer and from motion, every battery level, the clock, and
\* an acquisition task that does not get to run.
InitGuard == InitWith({4000}, {<<FALSE, 5, 0>>}, {"RAK12500_GNSS"})

NextGuard ==
    \/ app_event_handler({280, 300, 450}, {"LMH_SUCCESS"}, 0, 0)
    \/ ble_data_handler
    \/ lora_data_handler
    \/ send_delayed
    \/ periodic_wakeup
    \/ acc_interrupt
    \/ tick

SpecGuard == InitGuard /\ [][NextGuard]_vars

\* The acquisition: P2P, acquisitions started by motion (send_repeat_time
\* 0, no timer runs), a module that reports no fix, a fix of a low type or
\* a 3-D fix in each round of the polling loop, and a clock that runs to
\* the time limit of the polling loop.
LowReports == {-1, 0, 2}

InitAcquire == InitWith({0}, {<<FALSE, 5, 0>>}, {"RAK12500_GNSS"})

NextAcquire ==
    \/ app_event_handler({300}, {"LMH_SUCCESS"}, 0, 0)
    \/ ble_data_handler
    \/ lora_data_handler
    \/ gnss_take
    \/ gnss_round(LowReports)
    \/ gnss_report
    \/ gnss_give_up
    \/ acc_interrupt
    \/ tick_far

SpecAcquire == InitAcquire /\ [][NextAcquire]_vars

\* millis() advances and the acquisition task (a FreeRTOS task that sleeps in delay()
\* or is time-sliced with the loop task) gets to test its loop condition.
\* The module is not bound to ever report a 3-D fix.
FairAcquire ==
    /\ WF_vars(tick_far)
    /\ WF_vars(gnss_give_up)

SpecAcquireFair == SpecAcquire /\ FairAcquire

\* The deferred send: P2P, send_repeat_time 4000, motion, both timers, the
\* acquisition task, the clock of a prompt dispatcher, and a battery that
\* reads 280: the first timer event runs without protection and activates
\* it, the later ones run with protection active.
InitDefer == InitWith({4000}, {<<FALSE, 5, 0>>}, {"RAK12500_GNSS"})

NextDefer ==
    \/ app_event_handler({280}, {"LMH_SUCCESS"}, 0, 0)
    \/ ble_data_handler
    \/ lora_data_handler
    \/ gnss_take
    \/ gnss_finish
    \/ send_delayed
    \/ periodic_wakeup
    \/ acc_interrupt
    \/ tick_idle

SpecDefer == InitDefer /\ [][NextDefer]_vars

\* The loop task runs its handlers, the acquisition task runs, the timer
\* service runs the callbacks of expired timers and millis() advances.
\* Motion is not bound to anything.
FairDefer ==
    /\ WF_vars(app_event_handler({280}, {"LMH_SUCCESS"}, 0, 0))
    /\ WF_vars(ble_data_handler)
    /\ WF_vars(lora_data_handler)
    /\ WF_vars(gnss_take)
    /\ WF_vars(gnss_finish)
    /\ WF_vars(send_delayed)
    /\ WF_vars(periodic_wakeup)
    /\ WF_vars(tick_idle)

SpecDeferFair == SpecDefer /\ FairDefer

\* ------------------------------------------------------------------------
\* The handlers block by block
\* ------------------------------------------------------------------------
\* Each block of a handler tests its flag, clears it, and then runs its
\* body; between the steps the signal sources run.  loop_pc is "app", "ble"
\* or "lora" at the first test of a handler, and names the test or the body
\* elsewhere.

\* where the flag of each block is tested
TestPc ==
    [STATUS |-> "app", ACC_TRIGGER |-> "app acc", GNSS_FIN |-> "app fin",
     BLE_DATA |-> "ble", LORA_JOIN_FIN |-> "lora", LORA_TX_FIN |-> "lora tx",
     LORA_DATA |-> "lora data"]

\* where the body of each block runs
BodyPc ==
    [STATUS |-> "in STATUS", ACC_TRIGGER |-> "in ACC_TRIGGER",
     GNSS_FIN |-> "in GNSS_FIN", BLE_DATA |-> "in BLE_DATA",
     LORA_JOIN_FIN |-> "in LORA_JOIN_FIN", LORA_TX_FIN |-> "in LORA_TX_FIN",
     LORA_DATA |-> "in LORA_DATA"]

\* the test that follows each block; after the last one the next pass
NextPc ==
    [STATUS |-> "app acc", ACC_TRIGGER |-> "app fin", GNSS_FIN |-> "ble",
     BLE_DATA |-> "lora", LORA_JOIN_FIN |-> "lora tx",
     LORA_TX_FIN |-> "lora data", LORA_DATA |-> "app"]

\* the condition of the if that opens a block
Entered(flag) ==
    /\ flag \in g_task_event_type
    /\ flag = "ACC_TRIGGER" => g_lpwan_has_joined

\* a body that ends with the clearing of its flag
FlagsAfterBodyCleared(before, after, flag) == after \ {flag}

\* the flag word when a body returns: the body does not touch its own
\* flag, which was cleared before it
FlagsAfterBody(before, after, flag) == after \cup (before \cap {flag})

\* if ((g_task_event_type & F) == F) { g_task_event_type &= N_F;
block_test ==
    \E flag \in Flags :
      /\ loop_pc = TestPc[flag]
      /\ IF Entered(flag)
         THEN /\ g_task_event_type' = g_task_event_type \ {flag}
              /\ loop_pc' = BodyPc[flag]
              /\ handled' = (IF flag = "STATUS" THEN {} ELSE handled)
                               \cup {flag}
         ELSE /\ loop_pc' = NextPc[flag]
              /\ handled' = IF flag = "STATUS" THEN {} ELSE handled
              /\ UNCHANGED g_task_event_type
      /\ g_task_sem' = IF flag = "STATUS" THEN SemTake(g_task_sem)
                       ELSE g_task_sem
      /\ UNCHANGED << g_lorawan_settings, gnss_option, rmw, fix_type, WB_IO2,
                      g_gps_prec_6,
                      has_env_sensor, g_tracker_data_s, g_tracker_data_l,
                      last_reading, now, last_pos_send, delayed_active,
                      delayed_sending, g_task_wakeup_timer, send_fail,
                      low_batt_protection, g_lpwan_has_joined, g_join_result,
                      g_rx_fin_result, g_gnss_sem, gnss_pc, time_out,
                      last_read_ok, radio_log, at_log, last_frame, batt_hist,
                      consec_fail, restart_at, permit_given, permit_owed >>

\* the body of a block of app_event_handler
app_block(levels, results) ==
    \E flag \in {"STATUS", "ACC_TRIGGER", "GNSS_FIN"} :
      /\ loop_pc = BodyPc[flag]
      /\ \E level \in levels, bres \in results,
            fres \in SendScripts(results) :
           LET s == IF flag = "STATUS"
                    THEN StatusBlock(AppState, level, bres, 0, 0)
                    ELSE IF flag = "ACC_TRIGGER" THEN AccBlock(AppState)
                    ELSE FinBlock(AppState, fres, 0)
           IN /\ g_task_event_type' =
                   FlagsAfterBody(g_task_event_type, s.ev, flag)
              /\ low_batt_protection' = s.low
              /\ g_gnss_sem' = s.sem
              /\ g_task_wakeup_timer' = s.wake
              /\ delayed_sending' = s.dly
              /\ delayed_active' = s.dact
              /\ last_pos_send' = s.last
              /\ radio_log' = s.log
              /\ at_log' = s.at
              /\ last_frame' = s.lf
              /\ batt_hist' = s.bh
              /\ permit_given' = s.pg
              /\ permit_owed' = s.owed
      /\ loop_pc' = NextPc[flag]
      /\ UNCHANGED << g_lorawan_settings, gnss_option, rmw, fix_type, WB_IO2,
                      g_task_sem, g_gps_prec_6,
                      has_env_sensor, g_tracker_data_s, g_tracker_data_l,
                      last_reading, now, send_fail, g_lpwan_has_joined,
                      g_join_result, g_rx_fin_result, gnss_pc, time_out,
                      last_read_ok, handled, consec_fail, restart_at >>

\* the bodies of ble_data_handler and of the rx-data block: the bytes go to
\* the AT parser and to the log
forward_block ==
    \E flag \in {"BLE_DATA", "LORA_DATA"} :
      /\ loop_pc = BodyPc[flag]
      /\ loop_pc' = NextPc[flag]
      /\ UNCHANGED << g_lorawan_settings, gnss_option, rmw, fix_type, WB_IO2,
                      g_task_sem, g_gps_prec_6,
                      has_env_sensor, g_tracker_data_s, g_tracker_data_l,
                      last_reading, now, g_task_event_type, last_pos_send,
                      delayed_active, delayed_sending, g_task_wakeup_timer,
                      send_fail, low_batt_protection, g_lpwan_has_joined,
                      g_join_result, g_rx_fin_result, g_gnss_sem, gnss_pc,
                      time_out, last_read_ok, handled, radio_log, at_log,
                      last_frame, batt_hist, consec_fail, restart_at,
                      permit_given, permit_owed >>

\* the body of the join-completed block
join_block ==
    /\ loop_pc = BodyPc["LORA_JOIN_FIN"]
    /\ loop_pc' = NextPc["LORA_JOIN_FIN"]
    /\ IF g_join_result
       THEN /\ g_gnss_sem' = SemTake(SemGive("EMPTY"))
            /\ gnss_pc' = "wait"
            /\ WB_IO2' = PowerDown(WB_IO2)
            /\ last_pos_send' = now
       ELSE UNCHANGED << g_gnss_sem, gnss_pc, WB_IO2, last_pos_send >>
    /\ UNCHANGED << g_lorawan_settings, gnss_option, rmw, fix_type,
                    g_task_sem, g_gps_prec_6,
                    has_env_sensor, g_tracker_data_s, g_tracker_data_l,
                    last_reading, now, g_task_event_type, delayed_active,
                    delayed_sending, g_task_wakeup_timer, send_fail,
                    low_batt_protection, g_lpwan_has_joined, g_join_result,
                    g_rx_fin_result, time_out, last_read_ok, handled,
                    radio_log, at_log, last_frame, batt_hist, consec_fail,
                    restart_at, permit_given, permit_owed >>

\* the body of the tx-completed block
tx_block ==
    /\ loop_pc = BodyPc["LORA_TX_FIN"]
    /\ LET fails == IF g_rx_fin_result THEN 0 ELSE consec_fail + 1
       IN IF Restarts(send_fail, g_rx_fin_result)
          THEN /\ SystemReset
               /\ consec_fail' = 0
               /\ restart_at' = Append(restart_at, fails)
          ELSE /\ send_fail' = SendFailAfter(send_fail, g_rx_fin_result)
               /\ consec_fail' = fails
               /\ loop_pc' = NextPc["LORA_TX_FIN"]
               /\ UNCHANGED << g_lorawan_settings, gnss_option, rmw, fix_type, WB_IO2,
                               g_task_sem,
                               g_gps_prec_6, has_env_sensor,
                               g_tracker_data_s, g_tracker_data_l,
                               last_reading, now, g_task_event_type,
                               last_pos_send, delayed_active,
                               delayed_sending, g_task_wakeup_timer,
                               low_batt_protection, g_lpwan_has_joined,
                               g_join_result, g_rx_fin_result, g_gnss_sem,
                               gnss_pc, time_out, last_read_ok, handled,
                               radio_log, at_log, last_frame, batt_hist,
                               restart_at, permit_given, permit_owed >>

\* The blocks of the handlers as separate steps, with every signal source
\* running between them.
\* a transmission that ends without acknowledgement, up to the first
\* restart of the device
tx_failed ==
    /\ restart_at = << >>
    /\ lora_tx_finished
    /\ ~g_rx_fin_result'

InitBlocks == InitWith({0}, {<<TRUE, 5, 0>>}, {"RAK12500_GNSS"})

NextBlocks ==
    \/ block_test
    \/ app_block({300}, {"LMH_SUCCESS"})
    \/ forward_block
    \/ join_block
    \/ tx_block
    \/ gnss_take
    \/ gnss_finish
    \/ acc_interrupt
    \/ ble_rx
    \/ lora_rx
    \/ tx_failed
    \/ join_finished

SpecBlocks == InitBlocks /\ [][NextBlocks]_vars

\* ------------------------------------------------------------------------
\* The updates of the flag word as loads and stores
\* ------------------------------------------------------------------------
\* g_task_event_type |= F and g_task_event_type &= N_F are a load, an
\* operation on the loaded value and a store.  The loop task and the
\* acquisition task have the same priority and are time-sliced, so either
\* can be switched out between its load and its store; the timer callback
\* and the accelerometer interrupt preempt both and run to their end.

\* a task has loaded the flag word to set or clear flag
Loaded(kind, flag) ==
    [held |-> TRUE, reg |-> g_task_event_type, op |-> kind, flag |-> flag]

\* the value a task stores
RmwResult(r) ==
    IF r.op = "set" THEN r.reg \cup {r.flag} ELSE r.reg \ {r.flag}

\* if ((g_task_event_type & F) == F) and the load of g_task_event_type &= N_F
race_test ==
    \E flag \in Flags :
      /\ loop_pc = TestPc[flag]
      /\ ~rmw["loop"].held
      /\ IF Entered(flag)
         THEN /\ rmw' = [rmw EXCEPT !["loop"] = Loaded("clear", flag)]
              /\ handled' = (IF flag = "STATUS" THEN {} ELSE handled)
                               \cup {flag}
              /\ UNCHANGED loop_pc
         ELSE /\ loop_pc' = NextPc[flag]
              /\ handled' = IF flag = "STATUS" THEN {} ELSE handled
              /\ UNCHANGED rmw
      /\ g_task_sem' = IF flag = "STATUS" THEN SemTake(g_task_sem)
                       ELSE g_task_sem
      /\ UNCHANGED << g_lorawan_settings, gnss_option, fix_type, WB_IO2,
                      g_gps_prec_6, has_env_sensor, g_tracker_data_s,
                      g_tracker_data_l, last_reading, now,
                      g_task_event_type, last_pos_send, delayed_active,
                      delayed_sending, g_task_wakeup_timer, send_fail,
                      low_batt_protection, g_lpwan_has_joined, g_join_result,
                      g_rx_fin_result, g_gnss_sem, gnss_pc, time_out,
                      last_read_ok, radio_log, at_log, last_frame, batt_hist,
                      consec_fail, restart_at, permit_given, permit_owed >>

\* the store of the loop task's update: after a clear the body of the block
\* runs, after the motion block's set of STATUS the block is left
loop_store ==
    /\ rmw["loop"].held
    /\ g_task_event_type' = RmwResult(rmw["loop"])
    /\ rmw' = [rmw EXCEPT !["loop"] = RmwIdle["loop"]]
    /\ loop_pc' = IF rmw["loop"].op = "clear" THEN BodyPc[rmw["loop"].flag]
                  ELSE NextPc["ACC_TRIGGER"]
    /\ UNCHANGED << g_lorawan_settings, gnss_option, fix_type, WB_IO2,
                    g_task_sem, g_gps_prec_6, has_env_sensor,
                    g_tracker_data_s, g_tracker_data_l, last_reading, now,
                    last_pos_send, delayed_active, delayed_sending,
                    g_task_wakeup_timer, send_fail, low_batt_protection,
                    g_lpwan_has_joined, g_join_result, g_rx_fin_result,
                    g_gnss_sem, gnss_pc, time_out, last_read_ok, handled,
                    radio_log, at_log, last_frame, batt_hist, consec_fail,
                    restart_at, permit_given, permit_owed >>

\* the bodies of the timer block and of the fix-completed block, which do
\* not write the flag word
race_body(levels, results) ==
    /\ loop_pc # BodyPc["ACC_TRIGGER"]
    /\ app_block(levels, results)

\* the body of the motion block up to the load of g_task_event_type |= STATUS
acc_body ==
    /\ loop_pc = BodyPc["ACC_TRIGGER"]
    /\ LET s == AccBlock(AppState)
           send_now == SendNow(g_lorawan_settings.send_repeat_time,
                               now - last_pos_send, min_delay)
       IN /\ g_task_wakeup_timer' = s.wake
          /\ delayed_sending' = s.dly
          /\ delayed_active' = s.dact
          /\ last_pos_send' = s.last
          /\ radio_log' = s.log
          /\ at_log' = s.at
          /\ IF send_now
             THEN /\ rmw' = [rmw EXCEPT !["loop"] = Loaded("set", "STATUS")]
                  /\ loop_pc' = "app acc set"
             ELSE /\ loop_pc' = NextPc["ACC_TRIGGER"]
                  /\ UNCHANGED rmw
    /\ UNCHANGED << g_lorawan_settings, gnss_option, fix_type, WB_IO2,
                    g_task_sem, g_gps_prec_6, has_env_sensor,
                    g_tracker_data_s, g_tracker_data_l, last_reading, now,
                    g_task_event_type, send_fail, low_batt_protection,
                    g_lpwan_has_joined, g_join_result, g_rx_fin_result,
                    g_gnss_sem, gnss_pc, time_out, last_read_ok, handled,
                    last_frame, batt_hist, consec_fail, restart_at,
                    permit_given, permit_owed >>

\* poll_gnss returns and gnss_task loads the flag word
gnss_load ==
    /\ poll_gnss({"fix"}, {DefaultFix})
    /\ gnss_pc' = "raise"
    /\ rmw' = [rmw EXCEPT !["gnss"] = Loaded("set", "GNSS_FIN")]
    /\ UNCHANGED << g_task_event_type, g_task_sem >>

\* gnss_task stores the flag word and wakes the dispatcher
gnss_store ==
    /\ gnss_pc = "raise"
    /\ g_task_event_type' = RmwResult(rmw["gnss"])
    /\ rmw' = [rmw EXCEPT !["gnss"] = RmwIdle["gnss"]]
    /\ g_task_sem' = WakeGive(g_task_sem)
    /\ gnss_pc' = "wait"
    /\ UNCHANGED << g_lorawan_settings, gnss_option, fix_type, WB_IO2,
                    g_gps_prec_6, has_env_sensor, g_tracker_data_s,
                    g_tracker_data_l, last_reading, now, last_pos_send,
                    delayed_active, delayed_sending, g_task_wakeup_timer,
                    send_fail, low_batt_protection, g_lpwan_has_joined,
                    g_join_result, g_rx_fin_result, g_gnss_sem, time_out,
                    last_read_ok, loop_pc, handled, radio_log, at_log,
                    last_frame, batt_hist, consec_fail, restart_at,
                    permit_given, permit_owed >>

\* P2P, send_repeat_time 4000: motion events, the one-shot timer, the
\* acquisition task and the clock of a prompt dispatcher, with the
\* handlers block by block and the updates of the flag word as loads and
\* stores.
InitRace == InitWith({4000}, {<<FALSE, 5, 0>>}, {"RAK12500_GNSS"})

NextRace ==
    \/ race_test
    \/ loop_store
    \/ race_body({300}, {"LMH_SUCCESS"})
    \/ acc_body
    \/ gnss_take
    \/ gnss_load
    \/ gnss_store
    \/ send_delayed
    \/ acc_interrupt
    \/ tick_idle

SpecRace == InitRace /\ [][NextRace]_vars

\* ------------------------------------------------------------------------
\* Properties
\* ------------------------------------------------------------------------

\* a step that is one run of the named handler
AppStep == loop_pc = "app" /\ loop_pc' = "ble"
BleStep == loop_pc = "ble" /\ loop_pc' = "lora"
LoraStep == loop_pc = "lora" /\ loop_pc' = "app"

\* the state right after a run of app_event_handler
AfterApp == loop_pc = "ble"

\* a run of app_event_handler that enters the motion block
AccRuns ==
    /\ AppStep
    /\ "ACC_TRIGGER" \in g_task_event_type
    /\ g_lpwan_has_joined

RangeOf(s) == { s[i] : i \in DOMAIN s }

\* the send calls of the fix-completed block / of the timer block
FrameCalls == SelectSeq(radio_log, LAMBDA c : c.kind # "batt")
BattCalls == SelectSeq(radio_log, LAMBDA c : c.kind = "batt")

\* ---- C1 ----------------------------------------------------------------
\* C1: Battery Guard hysteresis.  In every timer event the protection flag
\* becomes (or stays) true at a reading below 290, keeps its value at a
\* reading in [290, 410], and is false after a reading above 410; between
\* timer events the flag does not change.  The readings 300, 280, 450 from
\* an unprotected start give the flag values false, true, false.
C1_BattHysteresis ==
    /\ \A i \in DOMAIN batt_hist :
         LET e == batt_hist[i]
         IN /\ e.level < 290 => e.after = TRUE
            /\ (e.level >= 290 /\ e.level <= 410) => e.after = e.before
            /\ e.level > 410 => e.after = FALSE
            /\ (e.after # e.before /\ e.after) => e.level < 290
            /\ (e.after # e.before /\ ~e.after) =>
                   (e.level > 410 /\ e.before)
    /\ \A i \in DOMAIN batt_hist :
         IF i = Len(batt_hist)
         THEN batt_hist[i].after = low_batt_protection
         ELSE batt_hist[i].after = batt_hist[i + 1].before
    /\ batt_hist = << >> => ~low_batt_protection
    /\ (/\ Len(batt_hist) = 3
        /\ ~batt_hist[1].before
        /\ << batt_hist[1].level, batt_hist[2].level, batt_hist[3].level >>
             = << 300, 280, 450 >>)
       => << batt_hist[1].after, batt_hist[2].after, batt_hist[3].after >>
            = << FALSE, TRUE, FALSE >>

\* the readings 300, 280, 450 have been handled, in this order
C1_Witness ==
    /\ Len(batt_hist) = 3
    /\ << batt_hist[1].level, batt_hist[2].level, batt_hist[3].level >>
         = << 300, 280, 450 >>
    /\ ~batt_hist[1].before
    /\ batt_hist[2].after
    /\ ~low_batt_protection

\* ---- C2 ----------------------------------------------------------------
\* C2: the tx-completed handler restarts the device exactly when 10
\* tx-completed events in a row reported failure: every restart happens
\* with 10 consecutive failures, and 10 consecutive failures never stay
\* without a restart.
C2_RestartAtTenConsecutive ==
    /\ \A i \in DOMAIN restart_at : restart_at[i] = 10
    /\ consec_fail < 10

\* ---- C3 ----------------------------------------------------------------
\* C3: with a send interval other than 0, a position frame that the radio
\* takes is at least min_spacing (half the send interval) later than the
\* position frame the radio took before it.  (Under SpecMotion every frame
\* results from a motion event.)
C3_MotionSpacing ==
    [][ (/\ AppStep
         /\ g_lorawan_settings.send_repeat_time # 0
         /\ last_frame # -1
         /\ \E i \in DOMAIN radio_log' :
               /\ radio_log'[i].kind = "position"
               /\ radio_log'[i].res = "LMH_SUCCESS")
        => now - last_frame >= g_lorawan_settings.send_repeat_time \div 2
      ]_vars

\* ---- C4 ----------------------------------------------------------------
\* C4: when the motion block runs at time now, the handler returns with the
\* timer event raised if and only if the send interval is 0 or
\* now - last_pos_send >= min_spacing, where min_spacing is half the send
\* interval, or 30000 when the interval is 0; it sets last_pos_send to now
\* when it sends now and leaves it alone otherwise (unless the fix-completed
\* block runs in the same call and records its own send time).
C4_SendNowDecision ==
    [][ AccRuns =>
          LET repeat == g_lorawan_settings.send_repeat_time
              spacing == IF repeat # 0 THEN repeat \div 2 ELSE 30000
              sendnow == repeat = 0 \/ now - last_pos_send >= spacing
          IN /\ ("STATUS" \in g_task_event_type') <=> sendnow
             /\ "ACC_TRIGGER" \notin g_task_event_type'
             /\ "GNSS_FIN" \notin g_task_event_type =>
                  last_pos_send' = IF sendnow THEN now ELSE last_pos_send
      ]_vars

\* a motion event was sent now, exactly min_spacing after the last send
C4_Witness ==
    /\ AfterApp
    /\ "ACC_TRIGGER" \in handled
    /\ "STATUS" \in g_task_event_type
    /\ g_lorawan_settings.send_repeat_time = 4000
    /\ now = 2000
    /\ last_pos_send = now

\* ---- C5 ----------------------------------------------------------------
\* C5: idempotent deferred arming.  A motion event handled while the
\* deferred-pending flag is set leaves the deferred timer alone; an armed
\* deferred timer that is not yet due is changed by nothing, and it is
\* disarmed only by its own firing, which raises the timer event: each
\* arming leads to one firing.
C5_ArmedUntilFired ==
    [][ /\ (AccRuns /\ delayed_active) => delayed_sending' = delayed_sending
        /\ (delayed_sending.active /\ now < delayed_sending.expiry) =>
             delayed_sending' = delayed_sending
        /\ (delayed_sending.active /\ ~delayed_sending'.active) =>
             /\ now = delayed_sending.expiry
             /\ "STATUS" \in g_task_event_type'
      ]_vars

C7_PassHandlesEveryFlag ==
    [][ /\ AppStep =>
             LET mine == g_task_event_type
                           \cap {"STATUS", "ACC_TRIGGER", "GNSS_FIN"}
             IN /\ mine \subseteq handled'
                /\ (mine \ {"STATUS"}) \cap g_task_event_type' = {}
        /\ BleStep =>
             LET mine == g_task_event_type \cap {"BLE_DATA"}
             IN mine \subseteq handled' /\ mine \cap g_task_event_type' = {}
        /\ LoraStep =>
             LET mine == g_task_event_type
                           \cap {"LORA_JOIN_FIN", "LORA_TX_FIN", "LORA_DATA"}
             IN mine \subseteq handled' /\ mine \cap g_task_event_type' = {}
      ]_vars

\* ---- C8 ----------------------------------------------------------------
\* C8: a timer event whose handling ends with the protection flag set (or
\* with positioning disabled) sends only the 4 byte battery payload and
\* does not release the acquisition task's permit; no timer event both
\* releases the permit and sends the battery payload.
C8_LowBattNoPermit ==
    (AfterApp /\ "STATUS" \in handled) =>
        /\ (low_batt_protection \/ gnss_option = "NO_GNSS_INIT") =>
              /\ Len(BattCalls) = 1
              /\ BattCalls[1].len = 4
              /\ ~permit_given
        /\ permit_given => BattCalls = << >>

\* ---- C9 ----------------------------------------------------------------
\* C9 (as stated): in LoRaWAN mode with lora_region 8 and data_rate 0 no
\* handler ever calls the radio send.
C9_NoFrameAtAll ==
    (/\ g_lorawan_settings.lorawan_enable
     /\ g_lorawan_settings.lora_region = 8
     /\ g_lorawan_settings.data_rate = 0)
    => radio_log = << >>

\* C9: in LoRaWAN mode with lora_region 8 and data_rate 0 the fix-completed
\* block calls no radio send and prints +EVT:DR_ERROR, and it prints that
\* tag in no other configuration; the timer block still sends the 4 byte
\* battery payload under low-battery protection or with positioning
\* disabled.
C9_FixPathRejected ==
    LET restricted == /\ g_lorawan_settings.lorawan_enable
                      /\ g_lorawan_settings.lora_region = 8
                      /\ g_lorawan_settings.data_rate = 0
    IN /\ restricted => FrameCalls = << >>
       /\ (AfterApp /\ "GNSS_FIN" \in handled) =>
             (("+EVT:DR_ERROR" \in RangeOf(at_log)) <=> restricted)
       /\ (AfterApp /\ "GNSS_FIN" \in handled /\ ~restricted) =>
             FrameCalls # << >>
       /\ (/\ AfterApp
           /\ "STATUS" \in handled
           /\ low_batt_protection \/ gnss_option = "NO_GNSS_INIT")
          => Len(BattCalls) = 1

\* the restricted configuration, a fix-completed event just handled
C9_Witness ==
    /\ AfterApp
    /\ "GNSS_FIN" \in handled
    /\ g_lorawan_settings.lorawan_enable
    /\ g_lorawan_settings.lora_region = 8
    /\ g_lorawan_settings.data_rate = 0
    /\ "+EVT:DR_ERROR" \in RangeOf(at_log)
    /\ FrameCalls = << >>

\* ---- C10 ---------------------------------------------------------------
\* C10: handling one fix-completed event calls the radio send at most 3
\* times, all within the one run of the handler, each further call only
\* after the call before it returned LMH_ERROR; when the third call is
\* made, +EVT:SIZE_ERROR is the last tag printed, whatever the third call
\* returned.
C10_BoundedRetry ==
    (AfterApp /\ "GNSS_FIN" \in handled) =>
        /\ Len(FrameCalls) <= 3
        /\ \A i \in 1..(Len(FrameCalls) - 1) :
              FrameCalls[i].res = "LMH_ERROR"
        /\ Len(FrameCalls) = 3 =>
              /\ at_log # << >>
              /\ at_log[Len(at_log)] = "+EVT:SIZE_ERROR"

\* three calls, the third taken by the radio, and the size error printed
C10_Witness ==
    /\ AfterApp
    /\ "GNSS_FIN" \in handled
    /\ Len(FrameCalls) = 3
    /\ FrameCalls[3].res = "LMH_SUCCESS"
    /\ at_log[Len(at_log)] = "+EVT:SIZE_ERROR"

PermitIdle ==
    /\ g_gnss_sem # "FULL"
    /\ gnss_pc # "poll"
    /\ "GNSS_FIN" \notin g_task_event_type

\* C12 (as stated): the number of fix-completed events handled equals the
\* number of permit releases: once nothing of the acquisition is under way,
\* every release has been answered by one fix-completed event.
C12_OneFinPerRelease == PermitIdle => permit_owed = 0

\* C12: per permit taken.  A release leaves the binary semaphore full (a
\* release onto a full semaphore adds nothing); the task takes a full
\* semaphore, which empties it, and for each take it raises the
\* fix-completed event once, which nothing else raises; the dispatcher never
\* handles more fix-completed events than it released permits.
C12_OneFinPerTake ==
    [][ /\ (AppStep /\ permit_given') => g_gnss_sem' = "FULL"
        /\ (gnss_pc = "wait" /\ gnss_pc' = "poll") =>
              (g_gnss_sem = "FULL" /\ g_gnss_sem' = "EMPTY")
        /\ (gnss_pc = "poll" /\ gnss_pc' = "wait") =>
              "GNSS_FIN" \in g_task_event_type'
        /\ ("GNSS_FIN" \notin g_task_event_type
              /\ "GNSS_FIN" \in g_task_event_type') =>
              (gnss_pc = "poll" /\ gnss_pc' = "wait")
        /\ (g_gnss_sem = "FULL" /\ g_gnss_sem' = "EMPTY") =>
              (gnss_pc = "wait" /\ gnss_pc' = "poll")
        /\ permit_owed' >= 0
      ]_vars

\* two releases were absorbed: nothing is under way and two releases stay
\* without a fix-completed event
C12_Witness ==
    /\ PermitIdle
    /\ gnss_pc = "wait"
    /\ permit_owed = 2
    /\ g_task_event_type = {}

\* ---- C13 ---------------------------------------------------------------
\* C13: the polling time limit is min(r / 2, 90000) when the send interval
\* r is not 0 and at most 180000, and 90000 otherwise; the polling loop
\* never runs longer than that.
C13_PollTimeout ==
    gnss_pc = "poll" =>
        LET r == g_lorawan_settings.send_repeat_time
            half == r \div 2
            limit == IF r # 0 /\ r <= 180000
                     THEN (IF half < 90000 THEN half ELSE 90000)
                     ELSE 90000
        IN /\ check_limit = limit
           /\ now - time_out <= limit

\* ---- C14 ---------------------------------------------------------------
\* a run of lora_data_handler that finds the join-completed event
JoinHandled == LoraStep /\ "LORA_JOIN_FIN" \in g_task_event_type

\* C14: as stated.  A successful join leaves the permit available to the
\* acquisition task when the handler returns and sets the last-send
\* timestamp to now; a failed join changes neither.
C14_PermitReleased ==
    [][ JoinHandled =>
          IF g_join_result
          THEN g_gnss_sem' = "FULL" /\ last_pos_send' = now
          ELSE UNCHANGED << g_gnss_sem, last_pos_send >>
      ]_vars

\* C14: a successful join creates the permit, gives it and takes it back
\* at once, so the handler returns with the permit not available: the
\* acquisition task is started waiting and runs only after a later timer
\* event releases the permit.  The last-send timestamp is set to now.  A
\* failed join changes neither the permit nor the timestamp.
C14_PermitCreatedEmpty ==
    [][ /\ JoinHandled =>
             IF g_join_result
             THEN /\ g_gnss_sem' = "EMPTY"
                  /\ gnss_pc' = "wait"
                  /\ last_pos_send' = now
             ELSE UNCHANGED << g_gnss_sem, gnss_pc, last_pos_send >>
        /\ (gnss_pc # "poll" /\ gnss_pc' = "poll") => g_gnss_sem = "FULL"
      ]_vars

\* a successful join has just been handled, later than the start
C14_Witness ==
    /\ loop_pc = "app"
    /\ "LORA_JOIN_FIN" \in handled
    /\ g_join_result
    /\ g_gnss_sem = "EMPTY"
    /\ gnss_pc = "wait"
    /\ now > 0
    /\ last_pos_send = now

\* ---- C15 ---------------------------------------------------------------
\* the memcpy calls of a frame that copy a position block
PositionBlocks(c) ==
    SelectSeq(c.blocks, LAMBDA b : b.src # "g_env_data")

EnvBlocks(c) == SelectSeq(c.blocks, LAMBDA b : b.src = "g_env_data")

\* C15: the length of a frame built with a valid fix is the length of its
\* position block (short in Standard mode, extended in Extended mode) plus
\* the length of its environment block (full with a sensor, 4 without);
\* the position block is at offset 0 and the environment block at the
\* offset equal to the position block's length.  The length follows the
\* mode, the sensor and the fix of each event.
C15_FrameLength ==
    \A i \in DOMAIN FrameCalls :
        LET c == FrameCalls[i]
            pos == IF g_gps_prec_6 THEN TRACKER_DATA_PREC_LEN
                   ELSE TRACKER_DATA_SHORT_LEN
            env == IF has_env_sensor THEN ENVIRONMENT_DATA_LEN ELSE 4
        IN c.kind = "position" =>
             /\ c.len = pos + env
             /\ Len(PositionBlocks(c)) = 1
             /\ PositionBlocks(c)[1].off = 0
             /\ PositionBlocks(c)[1].n = pos
             /\ PositionBlocks(c)[1].src =
                  (IF g_gps_prec_6 THEN "g_tracker_data_l"
                   ELSE "g_tracker_data_s")
             /\ Len(EnvBlocks(c)) = 1
             /\ EnvBlocks(c)[1].off = pos
             /\ EnvBlocks(c)[1].n = env

\* Standard mode, sensor present, valid fix: a frame of short + full
C15_Witness ==
    /\ AfterApp
    /\ ~g_gps_prec_6
    /\ has_env_sensor
    /\ Len(FrameCalls) = 1
    /\ FrameCalls[1].kind = "position"
    /\ FrameCalls[1].len = TRACKER_DATA_SHORT_LEN + ENVIRONMENT_DATA_LEN

\* ---- C16 ---------------------------------------------------------------
\* the frames built without a valid fix
NoFixCalls == SelectSeq(radio_log, LAMBDA c : c.kind = "nofix")

\* C16: as stated.  Without a valid fix and without a sensor the frame
\* holds the position block with zero fields, followed by the 4-byte
\* battery record; with a sensor it is the full environment block only.
C16_ZeroedPosition ==
    \A i \in DOMAIN NoFixCalls :
        LET c == NoFixCalls[i]
            pos == IF g_gps_prec_6 THEN TRACKER_DATA_PREC_LEN
                   ELSE TRACKER_DATA_SHORT_LEN
        IN IF has_env_sensor
           THEN /\ PositionBlocks(c) = << >>
                /\ c.len = ENVIRONMENT_DATA_LEN
           ELSE /\ Len(PositionBlocks(c)) = 1
                /\ \A k \in DOMAIN PositionBlocks(c)[1].fields :
                      PositionBlocks(c)[1].fields[k] = 0
                /\ c.len = pos + 4

\* C16: without a valid fix the position block is left out of the frame,
\* with or without a sensor: the frame is the environment block at offset
\* 0, the full environment record with a sensor and the 4-byte battery
\* record without, and its length is that block's length.
C16_PositionOmitted ==
    \A i \in DOMAIN NoFixCalls :
        LET c == NoFixCalls[i]
            env == IF has_env_sensor THEN ENVIRONMENT_DATA_LEN ELSE 4
        IN /\ PositionBlocks(c) = << >>
           /\ Len(EnvBlocks(c)) = 1
           /\ EnvBlocks(c)[1].off = 0
           /\ EnvBlocks(c)[1].n = env
           /\ c.len = env

\* no fix before the time limit, no sensor: a frame of 4 bytes
C16_Witness ==
    /\ AfterApp
    /\ ~has_env_sensor
    /\ ~last_reading.accepted
    /\ now >= PollCeiling
    /\ Len(NoFixCalls) = 1
    /\ NoFixCalls[1].len = 4

\* ---- C17 ---------------------------------------------------------------
\* the last polling loop ended with a reading at latitude 0 / longitude 0
ZeroReading ==
    last_reading.accepted /\ last_reading.lat = 0 /\ last_reading.lon = 0

\* the fix-completed block has run and no polling loop has ended since
FrameJustBuilt ==
    /\ AfterApp
    /\ "GNSS_FIN" \in handled
    /\ "GNSS_FIN" \notin g_task_event_type

\* C17: after a polling loop that accepted a reading at latitude 0 and
\* longitude 0 the validity flag is false, and a frame built then has the
\* shape of a frame without fix: the environment block only, no position
\* block, so no byte of that reading or of an earlier position.
C17_ZeroIsNoFix ==
    ZeroReading =>
        /\ ~last_read_ok
        /\ FrameJustBuilt =>
              \A i \in DOMAIN FrameCalls :
                  /\ FrameCalls[i].kind = "nofix"
                  /\ PositionBlocks(FrameCalls[i]) = << >>
                  /\ FrameCalls[i].len =
                       (IF has_env_sensor THEN ENVIRONMENT_DATA_LEN ELSE 4)

\* a frame built after a reading at 0 / 0 while the position blocks still
\* hold the fix before it
C17_Witness ==
    /\ FrameJustBuilt
    /\ ZeroReading
    /\ g_tracker_data_s # ZeroFields(9)
    /\ Len(FrameCalls) = 1

\* ---- C18 ---------------------------------------------------------------
\* a big-endian two's complement field of three / of four bytes
Signed3(b) == (b[1] - (IF b[1] >= 128 THEN 256 ELSE 0)) * 65536
                  + b[2] * 256 + b[3]

Signed4(b) == (b[1] - (IF b[1] >= 128 THEN 256 ELSE 0)) * 16777216
                  + b[2] * 65536 + b[3] * 256 + b[4]

\* a field value d at the given scale gives back v: within one step of
\* the scale, toward zero, with the sign kept
GivesBack(d, scale, v) ==
    /\ v >= 0 => (d >= 0 /\ d * scale <= v /\ v - d * scale < scale)
    /\ v <= 0 => (d <= 0 /\ d * scale >= v /\ d * scale - v < scale)

\* the position fields of a frame, decoded
DecodedShort(f) ==
    [lat |-> Signed3(SubSeq(f, 1, 3)), lon |-> Signed3(SubSeq(f, 4, 6)),
     alt |-> Signed3(SubSeq(f, 7, 9))]

DecodedPrec(f) ==
    [lat |-> Signed4(SubSeq(f, 1, 4)), lon |-> Signed4(SubSeq(f, 5, 8)),
     alt |-> Signed3(SubSeq(f, 9, 11))]

\* the frame's fields give back a reading
RoundTrip(c, fix) ==
    LET f == PositionBlocks(c)[1].fields
    IN IF g_gps_prec_6
       THEN /\ GivesBack(DecodedPrec(f).lat, 10, fix.lat)
            /\ GivesBack(DecodedPrec(f).lon, 10, fix.lon)
            /\ GivesBack(DecodedPrec(f).alt, 10, fix.alt)
       ELSE /\ GivesBack(DecodedShort(f).lat, 1000, fix.lat)
            /\ GivesBack(DecodedShort(f).lon, 1000, fix.lon)
            /\ GivesBack(DecodedShort(f).alt, 10, fix.alt)

\* C18: a frame built from a fix of the driver with latitude in [-90, 90]
\* degrees, longitude in [-180, 180] degrees and altitude in the 3-byte
\* range holds fields that decode to that fix within the resolution of the
\* mode (Standard: raw / 1000, Extended: raw / 10, altitude mm / 10), with
\* no overflow and with the sign kept.
C18_RoundTrip ==
    (FrameJustBuilt /\ last_read_ok /\ last_reading.accepted) =>
        \A i \in DOMAIN FrameCalls :
            FrameCalls[i].kind = "position" =>
                RoundTrip(FrameCalls[i], last_reading.driver)

\* the same for the values poll_gnss holds in latitude, longitude and
\* altitude when it encodes them
EncodingRoundTrip ==
    (FrameJustBuilt /\ last_read_ok /\ last_reading.accepted) =>
        \A i \in DOMAIN FrameCalls :
            FrameCalls[i].kind = "position" =>
                RoundTrip(FrameCalls[i], last_reading)

\* ---- C19 ---------------------------------------------------------------
\* a run of app_event_handler that handles a timer event and no motion
\* event (the motion block resets the periodic timer on its own)
TimerEventOnly ==
    /\ AppStep
    /\ "STATUS" \in g_task_event_type
    /\ ~AccRuns

\* C19: a timer event changes the periodic timer only when it changes the
\* protection flag: false to true sets the period to one hour and resets
\* the phase, true to false sets the period to the send interval and
\* resets the phase; a timer event that leaves the flag as it was (a reading
\* below 290 while protected among them) leaves period and phase alone.
C19_TimerOnTransitionOnly ==
    [][ TimerEventOnly =>
          /\ (~low_batt_protection /\ low_batt_protection') =>
                 /\ g_task_wakeup_timer'.period = OneHourMs
                 /\ g_task_wakeup_timer'.expiry = now + OneHourMs
          /\ (low_batt_protection /\ ~low_batt_protection') =>
                 /\ g_task_wakeup_timer'.period =
                      g_lorawan_settings.send_repeat_time
                 /\ g_task_wakeup_timer'.expiry =
                      now + g_lorawan_settings.send_repeat_time
          /\ (low_batt_protection' = low_batt_protection) =>
                 g_task_wakeup_timer' = g_task_wakeup_timer
      ]_vars

\* ---- C20 ---------------------------------------------------------------
\* the block of flag f is entered / returns in this step (a restart of the
\* device is not a return)
Enters(f) == loop_pc = TestPc[f] /\ loop_pc' = BodyPc[f]
Returns(f) == loop_pc = BodyPc[f] /\ loop_pc' = NextPc[f]
RestartStep == loop_pc = BodyPc["LORA_TX_FIN"] /\ loop_pc' = "app"

\* C20: every block clears its flag when it is entered, before its body
\* runs; a signal of the same event that arrives while the body runs is
\* still set when the block returns; and a set flag is cleared by nothing
\* but the entry of its block, so the signal is handled by one later run
\* of the block.  (The tx-completed block may restart the device instead
\* of returning; a restart clears the flag word.)
C20_ClearedBeforeBody ==
    [][ \A f \in Flags :
          /\ Enters(f) => (f \in g_task_event_type
                             /\ f \notin g_task_event_type')
          /\ (Returns(f) /\ f \in g_task_event_type) =>
                 f \in g_task_event_type'
          /\ (f \in g_task_event_type /\ f \notin g_task_event_type') =>
                 (Enters(f) \/ RestartStep)
      ]_vars

\* the fix-completed block has returned with its flag set again: the
\* acquisition task raised it while the block ran or right after
C20_Witness ==
    /\ loop_pc = NextPc["GNSS_FIN"]
    /\ "GNSS_FIN" \in handled
    /\ "GNSS_FIN" \in g_task_event_type


\* ------------------------------------------------------------------------
\* The callback of the one-shot timer
\* ------------------------------------------------------------------------
\* a step in which the one-shot timer expires: it was armed and due, it is
\* stopped afterwards, and the dispatcher did not move
DelayedFired ==
    /\ delayed_sending.active
    /\ now = delayed_sending.expiry
    /\ ~delayed_sending'.active
    /\ loop_pc' = loop_pc

\* C21: when the one-shot timer expires, its callback raises the timer event
\* flag and gives the dispatcher's wake-up permit, and nothing else: the
\* time of the last position frame, the deferred-pending flag, the failure
\* counter, the protection flag, the acquisition task's permit and every
\* other event flag stay as they were, and no send function is called.
C21_CallbackOnlySignals ==
    [][DelayedFired =>
         /\ g_task_event_type' = g_task_event_type \cup {"STATUS"}
         /\ g_task_sem' = "FULL"
         /\ UNCHANGED << last_pos_send, delayed_active, send_fail,
                         low_batt_protection, g_gnss_sem, radio_log,
                         at_log >>]_vars

\* the callback has just run on a sleeping dispatcher: the timer is stopped
\* at its expiry time, the send is still pending, the timer event is raised
\* next to a motion event and the wake-up permit is there
C21_Witness ==
    /\ delayed_active
    /\ ~delayed_sending.active
    /\ delayed_sending.expiry = now
    /\ now > 0
    /\ g_task_event_type = {"STATUS", "ACC_TRIGGER"}
    /\ g_task_sem = "FULL"


\* ------------------------------------------------------------------------
\* The end of an acquisition
\* ------------------------------------------------------------------------
\* a step in which poll_gnss returns and gnss_task signals the dispatcher
WorkerEnds == gnss_pc = "poll" /\ gnss_pc' = "wait"

\* the state gnss_task leaves when it goes back to wait for its permit
Signalled ==
    /\ gnss_pc = "wait"
    /\ "GNSS_FIN" \in g_task_event_type
    /\ g_task_sem = "FULL"
    /\ WB_IO2 = "LOW"

StoreBy(w) == rmw[w].held /\ ~rmw'[w].held

\* the flags the tasks and the timer callback raise
RaisedByTasks == {"STATUS", "GNSS_FIN"}

\* a step that takes away a flag one of them raised
Lost(f) ==
    /\ f \in RaisedByTasks
    /\ f \in g_task_event_type
    /\ f \notin g_task_event_type'

\* a step that sets a flag that was clear
Resurrected(f) == f \notin g_task_event_type /\ f \in g_task_event_type'

\* C23: no event flag is lost or resurrected by interleaving.  A store of
\* the loop task or of the acquisition task changes the one flag it sets or
\* clears and no other: a flag another writer raised since the load is
\* still set after the store, and a flag its handler cleared since the
\* load is not set again by the store.
C23_NoLostOrResurrectedFlag ==
    [][\A w \in Writers :
         StoreBy(w) =>
           \A f \in Flags \ {rmw[w].flag} :
              /\ ~Lost(f)
              /\ ~Resurrected(f)]_vars


\* ------------------------------------------------------------------------
\* The frame and the acquisition that signalled it
\* ------------------------------------------------------------------------
\* C24: the frame built by the fix-completed block reflects the acquisition
\* that raised the flag.  When the block has run and no polling loop has
\* ended since, and the last polling loop ended with an accepted reading
\* away from latitude 0 / longitude 0, the frame is not a frame without
\* fix: the task has not started another acquisition in between, also when
\* a second permit was released while the first acquisition ran.
C24_FrameOfItsAcquisition ==
    (FrameJustBuilt /\ last_reading.accepted /\ ~ZeroReading) =>
        \A i \in DOMAIN FrameCalls : FrameCalls[i].kind # "nofix"


\* ------------------------------------------------------------------------
\* What a timer event produces
\* ------------------------------------------------------------------------
\* C25: every handled timer event starts a report.  After a run of the
\* timer block, whatever the reading and whatever the protection flag was
\* before it, the acquisition task's permit has been released or the
\* 4-byte battery payload has been handed to the radio.
C25_TimerEventReports ==
    (AfterApp /\ "STATUS" \in handled) =>
        \/ permit_given
        \/ \E i \in DOMAIN BattCalls : BattCalls[i].len = BattPayloadLen


\* ------------------------------------------------------------------------
\* The deferred-pending flag
\* ------------------------------------------------------------------------
\* the one-shot timer has fired (or was stopped) with the send still pending
FiredPending == delayed_active /\ ~delayed_sending.active

\* C26: the deferred-pending flag is cleared in the end.  Once the one-shot
\* timer has fired, delayed_active becomes false again, under fair
\* scheduling of the loop task, the acquisition task and the timers, with
\* low-battery protection active or not.
C26_PendingCleared == FiredPending ~> ~delayed_active

====
